---- MODULE Spec2Model ----
(***************************************************************************)
(* Model of the PDF extraction backend (backend/main.py and                *)
(* backend/database.py): process start-up, the four request handlers       *)
(* (extract, parse, list, create), the company_data table, the working     *)
(* directory that holds the temporary upload files, and the process        *)
(* environment.  extract_data is a coroutine and is split at its await     *)
(* points; create_company_data runs in a worker thread and is split at     *)
(* its database commit; parse_data and get_company_data make one blocking  *)
(* call each and are single steps.                                         *)
(***************************************************************************)
EXTENDS Integers, Sequences, FiniteSets, TLC

VARIABLES
    proc,       \* "init" | "running" | "crashed": the state of the server process
    startEnv,   \* the environment the process was started with
    environ,    \* os.environ: the names of the variables that are set
    now,        \* datetime.datetime.utcnow(), as a tick count
    rows,       \* the company_data table, in order of insertion
    fs,         \* the working directory: path -> file
    pc,         \* per client: where its request in flight stands
    local,      \* per client: the local variables of its handler
    resp,       \* the HTTP response sent last
    created,    \* history: the payloads of the creates answered with 200
    lastList    \* history: the list result returned since the last create

vars == <<proc, startEnv, environ, now, rows, fs, pc, local, resp, created, lastList>>

----------------------------------------------------------------------------
(* Bounds and input sets *)

MaxClock == 2

Clients == {"c1", "c2"}

EnvNames == {"DATABASE_URL", "OPENAI_API_KEY"}

Filenames == {"a.pdf", "b.pdf"}

\* Optional values: None is the empty sequence, a value v is <<v>>.
None == <<>>

Some(v) == <<v>>

\* Uploaded documents: a sequence of page images.
DocA == <<"imgA1", "imgA2">>

DocB == <<"imgB1">>

Docs == {DocA, DocB}

Uploads == [filename : Filenames, content : Docs]

\* What the conversion engine makes of each page image.
Markdown == [imgA1 |-> "page1 text", imgA2 |-> "page2 text", imgB1 |-> "other text"]

Minimal(id, fn) ==
    [id |-> id, file_name |-> fn, company_name |-> None,
     company_description |-> None, company_business_model |-> None,
     company_industry |-> None, management_team |-> None, revenue |-> None,
     revenue_growth |-> None, gross_profit |-> None, ebitda |-> None,
     capex |-> None]

Full(id, fn) ==
    [id |-> id, file_name |-> fn, company_name |-> Some("Acme"),
     company_description |-> Some("Makes anvils"),
     company_business_model |-> Some("B2B"),
     company_industry |-> Some("Manufacturing"),
     management_team |-> Some("W. Coyote"), revenue |-> Some("$10M"),
     revenue_growth |-> Some("12%"), gross_profit |-> Some("$4M"),
     ebitda |-> Some("$2M"), capex |-> Some("$500K")]

Partial(id, fn) == [Minimal(id, fn) EXCEPT !.revenue = Some("$10M")]

\* The bodies of the create requests.
CreateInputs == {Full("id1", "a.pdf"), Partial("id1", "b.pdf"), Minimal("id2", "b.pdf")}

ParseInputs == {[strings |-> <<"page1 text", "page2 text">>, columns |-> <<"revenue">>]}

\* What the completion service may answer, and how it may fail.
LlmTexts == {"{\"revenue\": {\"value\": \"$10M\", \"confidence\": 90, \"source\": 0}}"}

LlmErrors == {"Rate limit reached"}

----------------------------------------------------------------------------
(* Start-up *)

NoResp == [op |-> "none", status |-> 0]

NoLocal == [op |-> "none"]

NoFile == [exists |-> FALSE, bytes |-> <<>>, creator |-> "", openers |-> {}]

temp_file_path(filename) == "./temp_" \o filename

Paths == {temp_file_path(f) : f \in Filenames}

Init ==
    /\ proc = "init"
    /\ environ \in SUBSET EnvNames
    /\ startEnv = environ
    /\ now = 0
    /\ rows = <<>>
    /\ fs = [p \in Paths |-> NoFile]
    /\ pc = [c \in Clients |-> "idle"]
    /\ local = [c \in Clients |-> NoLocal]
    /\ resp = NoResp
    /\ created = {}
    /\ lastList = None

\* database.py: DATABASE_URL = os.getenv("DATABASE_URL"); if not: raise ValueError
DatabaseImportFails(env) == "DATABASE_URL" \notin env

\* main.py: llm = OpenAI() raises when no api key is given and OPENAI_API_KEY is unset
OpenAIClientFails(env) == "OPENAI_API_KEY" \notin env

\* Loading backend.main: the import of backend.database, then the module body.
Startup ==
    /\ proc = "init"
    /\ proc' = IF DatabaseImportFails(environ) \/ OpenAIClientFails(environ)
               THEN "crashed" ELSE "running"
    /\ UNCHANGED <<startEnv, environ, now, rows, fs, pc, local, resp, created, lastList>>

\* os.environ is read again by every parse request; the variable may be
\* removed from, or put back into, the environment of the running process.
EnvChange ==
    /\ proc = "running"
    /\ environ' = IF "OPENAI_API_KEY" \in environ
                  THEN environ \ {"OPENAI_API_KEY"}
                  ELSE environ \cup {"OPENAI_API_KEY"}
    /\ UNCHANGED <<proc, startEnv, now, rows, fs, pc, local, resp, created, lastList>>

\* The wall clock advances; two reads of it may return the same value.
Tick ==
    /\ proc = "running"
    /\ now < MaxClock
    /\ now' = now + 1
    /\ UNCHANGED <<proc, startEnv, environ, rows, fs, pc, local, resp, created, lastList>>

----------------------------------------------------------------------------
(* Responses *)

\* A handler's return value: FastAPI answers 200 with it as the body.
Ok(op, req, body, calls) ==
    [op |-> op, req |-> req, status |-> 200, detail |-> None,
     body |-> body, calls |-> calls]

\* raise HTTPException(status_code=500, detail=...): answered 500 {"detail": ...}.
HTTPError(op, req, detail, calls) ==
    [op |-> op, req |-> req, status |-> 500, detail |-> Some(detail),
     body |-> <<>>, calls |-> calls]

\* An exception no handler catches: the framework answers 500 with the plain
\* text "Internal Server Error"; the exception's message is not sent.
Unhandled(op, req, exc, calls) ==
    [op |-> op, req |-> req, status |-> 500, detail |-> None,
     body |-> "Internal Server Error", exc |-> exc, calls |-> calls]

\* str(e) for the exceptions parse_data catches.
StrOf(e) ==
    IF e.type = "HTTPException"
    THEN ToString(e.status_code) \o ": " \o e.detail
    ELSE e.message

----------------------------------------------------------------------------
(* Record store: backend/database.py and the two company-data handlers *)

\* CompanyData(...) with revenue filled from the neighbouring field.
CompanyData_RevenueSlip(data) ==
    [id |-> data.id,
     file_name |-> data.file_name,
     company_name |-> data.company_name,
     company_description |-> data.company_description,
     company_business_model |-> data.company_business_model,
     company_industry |-> data.company_industry,
     management_team |-> data.management_team,
     revenue |-> data.revenue_growth,
     revenue_growth |-> data.revenue_growth,
     gross_profit |-> data.gross_profit,
     ebitda |-> data.ebitda,
     capex |-> data.capex,
     created_at |-> None]

\* The CompanyData(...) constructor call of create_company_data.
CompanyData(data) ==
    [id |-> data.id,
     file_name |-> data.file_name,
     company_name |-> data.company_name,
     company_description |-> data.company_description,
     company_business_model |-> data.company_business_model,
     company_industry |-> data.company_industry,
     management_team |-> data.management_team,
     revenue |-> data.revenue,
     revenue_growth |-> data.revenue_growth,
     gross_profit |-> data.gross_profit,
     ebitda |-> data.ebitda,
     capex |-> data.capex,
     created_at |-> None]

\* created_at = Column(DateTime, default=datetime.datetime.utcnow)
created_at_default(obj, utcnow) ==
    IF obj.created_at = None THEN [obj EXCEPT !.created_at = Some(utcnow)] ELSE obj

\* A table whose id column is not a key: no INSERT is refused.
PrimaryKeyViolation_NoKey(table, obj) == FALSE

\* id = Column(String, primary_key=True): the INSERT is refused when a row has the id.
PrimaryKeyViolation(table, obj) == \E i \in 1..Len(table) : table[i].id = obj.id

\* CompanyDataSchema.from_orm(obj): the twelve fields of the schema.
from_orm(obj) ==
    [id |-> obj.id,
     file_name |-> obj.file_name,
     company_name |-> obj.company_name,
     company_description |-> obj.company_description,
     company_business_model |-> obj.company_business_model,
     company_industry |-> obj.company_industry,
     management_team |-> obj.management_team,
     revenue |-> obj.revenue,
     revenue_growth |-> obj.revenue_growth,
     gross_profit |-> obj.gross_profit,
     ebitda |-> obj.ebitda,
     capex |-> obj.capex]

Perms(n) == {f \in [1..n -> 1..n] : \A i, j \in 1..n : i # j => f[i] # f[j]}

\* db.query(CompanyData).order_by(CompanyData.created_at.desc()).all(): every row,
\* later created_at first; the order of rows with equal created_at is the
\* database's choice.
QueryOrderByCreatedAtDesc(table) ==
    {[i \in 1..Len(table) |-> table[f[i]]] :
        f \in {g \in Perms(Len(table)) :
                 \A i, j \in 1..Len(table) :
                    i < j => table[g[i]].created_at[1] >= table[g[j]].created_at[1]}}

\* GET /api/company-data
get_company_data(c) ==
    /\ proc = "running"
    /\ pc[c] = "idle"
    /\ UNCHANGED <<proc, startEnv, environ, now, rows, fs, pc, local, created>>
    /\ \E db_objs \in QueryOrderByCreatedAtDesc(rows) :
         LET body == [i \in 1..Len(db_objs) |-> from_orm(db_objs[i])]
         IN /\ resp' = Ok("list", <<>>, body, 0)
            /\ lastList' = Some(body)

\* POST /api/company-data, up to db.add(db_obj): the request is validated and
\* the object is pending in the request's own session.
create_company_data_add(c) ==
    /\ proc = "running"
    /\ pc[c] = "idle"
    /\ \E data \in CreateInputs :
         local' = [local EXCEPT ![c] = [op |-> "create", data |-> data,
                                        db_obj |-> CompanyData(data)]]
    /\ pc' = [pc EXCEPT ![c] = "create_commit"]
    /\ UNCHANGED <<proc, startEnv, environ, now, rows, fs, resp, created, lastList>>

\* db.commit(); db.refresh(db_obj); return from_orm(db_obj).  The INSERT is one
\* transaction of the database; IntegrityError is caught by nothing.
create_company_data_commit(c) ==
    /\ proc = "running"
    /\ pc[c] = "create_commit"
    /\ LET obj == created_at_default(local[c].db_obj, now)
       IN IF PrimaryKeyViolation(rows, obj)
          THEN /\ resp' = Unhandled("create", local[c].data, "IntegrityError", 0)
               /\ UNCHANGED <<rows, created, lastList>>
          ELSE /\ rows' = Append(rows, obj)
               /\ resp' = Ok("create", local[c].data, from_orm(obj), 0)
               /\ created' = created \cup {local[c].data}
               /\ lastList' = None
    /\ pc' = [pc EXCEPT ![c] = "idle"]
    /\ local' = [local EXCEPT ![c] = NoLocal]
    /\ UNCHANGED <<proc, startEnv, environ, now, fs>>

----------------------------------------------------------------------------
(* GET / *)

read_root(c) ==
    /\ proc = "running"
    /\ pc[c] = "idle"
    /\ resp' = Ok("root", <<>>,
                  [message |-> "Import files to extract and organize data"], 0)
    /\ UNCHANGED <<proc, startEnv, environ, now, rows, fs, pc, local, created, lastList>>

----------------------------------------------------------------------------
(* POST /api/extract *)

\* aiofiles.open(path, 'wb'): creates the file, or truncates the one that is
\* there; the caller holds it open.
OpenWb(file, c) ==
    IF file.exists
    THEN [file EXCEPT !.bytes = <<>>, !.openers = @ \cup {c}]
    ELSE [exists |-> TRUE, bytes |-> <<>>, creator |-> c, openers |-> {c}]

\* out_file.write(content) and the close that ends the async with block.  A
\* file unlinked since it was opened takes the bytes with it: the path is
\* left as it is.
WriteAndClose(file, c, content) ==
    IF file.exists /\ c \in file.openers
    THEN [file EXCEPT !.bytes = content, !.openers = @ \ {c}]
    ELSE file

\* The close alone, when the read or the write raised.
CloseOnly(file, c) ==
    IF file.exists /\ c \in file.openers
    THEN [file EXCEPT !.openers = @ \ {c}]
    ELSE file

\* zerox(file_path=..., select_pages=None): one page per page of the file at
\* the path, in order, or an exception.
ZeroxOutcomes(file) ==
    IF ~file.exists
    THEN {[ok |-> FALSE, pages |-> <<>>, exc |-> "FileUnavailable"]}
    ELSE IF file.bytes = <<>>
    THEN {[ok |-> FALSE, pages |-> <<>>, exc |-> "NotAPdf"]}
    ELSE {[ok |-> TRUE,
           pages |-> [i \in 1..Len(file.bytes) |->
                        [content |-> Markdown[file.bytes[i]], page |-> i]],
           exc |-> ""],
          [ok |-> FALSE, pages |-> <<>>, exc |-> "ConversionFailed"]}

\* for page in pages: page_contents.append(page.content)
PageContents(pages) == [i \in 1..Len(pages) |-> pages[i].content]

\* The request arrives; temp_file_path is computed from the upload's name.
extract_data_request(c) ==
    /\ proc = "running"
    /\ pc[c] = "idle"
    /\ \E file \in Uploads :
         local' = [local EXCEPT ![c] =
                     [op |-> "extract", file |-> file,
                      temp_file_path |-> temp_file_path(file.filename),
                      result |-> [ok |-> FALSE, pages |-> <<>>, exc |-> ""]]]
    /\ pc' = [pc EXCEPT ![c] = "ex_open"]
    /\ UNCHANGED <<proc, startEnv, environ, now, rows, fs, resp, created, lastList>>

\* async with aiofiles.open(temp_file_path, 'wb') as out_file
extract_data_open(c) ==
    /\ proc = "running"
    /\ pc[c] = "ex_open"
    /\ fs' = [fs EXCEPT ![local[c].temp_file_path] = OpenWb(@, c)]
    /\ pc' = [pc EXCEPT ![c] = "ex_write"]
    /\ UNCHANGED <<proc, startEnv, environ, now, rows, local, resp, created, lastList>>

\* content = await file.read(); await out_file.write(content); the block ends.
\* Either await may raise (a full disk, a broken upload): the block is left
\* by the exception, which is outside the try statement.
extract_data_write(c) ==
    /\ proc = "running"
    /\ pc[c] = "ex_write"
    /\ \/ /\ fs' = [fs EXCEPT ![local[c].temp_file_path] =
                       WriteAndClose(@, c, local[c].file.content)]
          /\ pc' = [pc EXCEPT ![c] = "ex_zerox"]
          /\ UNCHANGED <<local, resp>>
       \/ /\ fs' = [fs EXCEPT ![local[c].temp_file_path] = CloseOnly(@, c)]
          /\ resp' = Unhandled("extract", local[c].file, "OSError", 0)
          /\ pc' = [pc EXCEPT ![c] = "idle"]
          /\ local' = [local EXCEPT ![c] = NoLocal]
    /\ UNCHANGED <<proc, startEnv, environ, now, rows, created, lastList>>

\* try: result = await zerox(file_path=temp_file_path, ...): the engine reads
\* the file at the path and works on it.
extract_data_zerox(c) ==
    /\ proc = "running"
    /\ pc[c] = "ex_zerox"
    /\ \E result \in ZeroxOutcomes(fs[local[c].temp_file_path]) :
         local' = [local EXCEPT ![c].result = result]
    /\ pc' = [pc EXCEPT ![c] = "ex_finally"]
    /\ UNCHANGED <<proc, startEnv, environ, now, rows, fs, resp, created, lastList>>

\* zerox returns or raises; the pages are copied; finally: os.remove(temp_file_path),
\* whose FileNotFoundError replaces the return value or the exception under way.
extract_data_finally(c) ==
    /\ proc = "running"
    /\ pc[c] = "ex_finally"
    /\ IF fs[local[c].temp_file_path].exists
       THEN /\ fs' = [fs EXCEPT ![local[c].temp_file_path] = NoFile]
            /\ resp' = IF local[c].result.ok
                       THEN Ok("extract", local[c].file,
                               PageContents(local[c].result.pages), 1)
                       ELSE Unhandled("extract", local[c].file,
                                      local[c].result.exc, 1)
       ELSE /\ fs' = fs
            /\ resp' = Unhandled("extract", local[c].file, "FileNotFoundError", 1)
    /\ pc' = [pc EXCEPT ![c] = "idle"]
    /\ local' = [local EXCEPT ![c] = NoLocal]
    /\ UNCHANGED <<proc, startEnv, environ, now, rows, created, lastList>>

----------------------------------------------------------------------------
(* POST /api/parse *)

\* The check made on another variable of the environment.
OpenAIKeyNotSet_WrongName(env) == "DATABASE_URL" \notin env

\* if "OPENAI_API_KEY" not in os.environ
OpenAIKeyNotSet(env) == "OPENAI_API_KEY" \notin env

\* The whole handler: the check, the prompt, llm.responses.create (a blocking
\* call), and the except clause that wraps every exception, the
\* HTTPException of the check included, in HTTPException(500, detail=str(e)).
parse_data(c) ==
    /\ proc = "running"
    /\ pc[c] = "idle"
    /\ \E input \in ParseInputs :
         IF OpenAIKeyNotSet(environ)
         THEN resp' = HTTPError("parse", input,
                                StrOf([type |-> "HTTPException", status_code |-> 500,
                                       detail |-> "OpenAI API key not set"]), 0)
         ELSE \/ \E text \in LlmTexts : resp' = Ok("parse", input, text, 1)
              \/ \E m \in LlmErrors :
                   resp' = HTTPError("parse", input,
                                     StrOf([type |-> "APIError", message |-> m]), 1)
    /\ UNCHANGED <<proc, startEnv, environ, now, rows, fs, pc, local, created, lastList>>

----------------------------------------------------------------------------
(* The system *)

\* Every handler, at every client.
Next ==
    \/ Startup
    \/ EnvChange
    \/ Tick
    \/ \E c \in Clients :
         \/ read_root(c)
         \/ extract_data_request(c)
         \/ extract_data_open(c)
         \/ extract_data_write(c)
         \/ extract_data_zerox(c)
         \/ extract_data_finally(c)
         \/ parse_data(c)
         \/ get_company_data(c)
         \/ create_company_data_add(c)
         \/ create_company_data_commit(c)

Spec == Init /\ [][Next]_vars

\* The handlers of extract_data read and write fs, pc, local and resp only; the
\* other handlers leave fs alone.  The two groups are checked apart.
NextApi ==
    \/ Startup
    \/ EnvChange
    \/ Tick
    \/ \E c \in Clients :
         \/ read_root(c)
         \/ parse_data(c)
         \/ get_company_data(c)
         \/ create_company_data_add(c)
         \/ create_company_data_commit(c)

SpecApi == Init /\ [][NextApi]_vars

NextExtract ==
    \/ Startup
    \/ \E c \in Clients :
         \/ read_root(c)
         \/ extract_data_request(c)
         \/ extract_data_open(c)
         \/ extract_data_write(c)
         \/ extract_data_zerox(c)
         \/ extract_data_finally(c)

SpecExtract == Init /\ [][NextExtract]_vars

----------------------------------------------------------------------------
(* Properties *)

HasId(table, id) == \E i \in 1..Len(table) : table[i].id = id

RowsWithId(table, id) == {i \in 1..Len(table) : table[i].id = id}

\* C1: after an extract request finishes, on any exit path (the conversion
\* returned, the conversion raised, the write of the upload raised), the
\* temporary file the request created no longer exists.
C1_TempFileGone ==
    [][\A c \in Clients :
         ((extract_data_write(c) \/ extract_data_finally(c)) /\ pc'[c] = "idle")
            => ~(fs'[local[c].temp_file_path].exists
                 /\ fs'[local[c].temp_file_path].creator = c)]_vars

\* C2: a create whose identifier is in the store when it commits fails with
\* the constraint's error and leaves the store as it was; a create whose
\* identifier is not in the store succeeds and adds one row; no two rows ever
\* have the same identifier.  Commits of concurrent creates are covered: of
\* two in flight with one identifier, the first to commit succeeds and the
\* second fails.
C2_DuplicateCreateFails ==
    [][\A c \in Clients :
         create_company_data_commit(c) =>
            /\ \A id \in {rows'[i].id : i \in 1..Len(rows')} :
                 Cardinality(RowsWithId(rows', id)) = 1
            /\ HasId(rows, local[c].data.id) =>
                 /\ resp'.status = 500
                 /\ resp'.exc = "IntegrityError"
                 /\ rows' = rows
            /\ ~HasId(rows, local[c].data.id) =>
                 /\ resp'.status = 200
                 /\ Len(rows') = Len(rows) + 1]_vars

\* A create was refused for its identifier, and the one row with that
\* identifier holds other values than the refused request's.
C2_Witness ==
    /\ resp.op = "create"
    /\ resp.status = 500
    /\ resp.exc = "IntegrityError"
    /\ Cardinality(RowsWithId(rows, resp.req.id)) = 1
    /\ \E i \in RowsWithId(rows, resp.req.id) : from_orm(rows[i]) # resp.req

\* C3: every list result holds, for every create answered with success so
\* far, a record equal to the payload of that create (fields not supplied
\* read back as None), whatever requests were served in between; and no step
\* changes or removes a stored row.
C3_CreatedRecordsListed ==
    [][/\ \A c \in Clients :
            get_company_data(c) =>
               \A d \in created : \E i \in 1..Len(resp'.body) : resp'.body[i] = d
       /\ Len(rows') >= Len(rows)
       /\ \A i \in 1..Len(rows) : rows'[i] = rows[i]]_vars

\* A list result with two created records, one of them created with the
\* identifier and the file name only, one with every field.
C3_Witness ==
    /\ resp.op = "list"
    /\ resp.status = 200
    /\ created = {Full("id1", "a.pdf"), Minimal("id2", "b.pdf")}
    /\ \A d \in created : \E i \in 1..Len(resp.body) : resp.body[i] = d

\* C4: list leaves the store as it is, and a list result equals the result
\* of the list before it when no create succeeded in between, rows of equal
\* creation timestamp included.
C4_ListRepeatable ==
    [][\A c \in Clients :
         get_company_data(c) =>
            /\ rows' = rows
            /\ lastList # None => lastList' = lastList]_vars

\* C5: a list result holds the stored records newest first: the record
\* created last comes first, and every record comes before all records
\* created earlier.
C5_NewestFirst ==
    [][\A c \in Clients :
         get_company_data(c) =>
            resp'.body = [i \in 1..Len(rows) |-> from_orm(rows[Len(rows) + 1 - i])]]_vars

C7_StartsWithoutKey ==
    (proc # "init" /\ startEnv = {"DATABASE_URL"}) => proc = "running"

\* C8: every failure of a handler is answered with an error response that
\* carries a detail message, after at most one call to the conversion engine
\* or the completion service.
C8_FailuresCarryDetail ==
    (resp.op # "none" /\ resp.status # 200) =>
        (resp.detail # None /\ resp.calls <= 1)

\* C9: a successful extract returns the page texts of the uploaded document,
\* one per page, in page order.
C9_PagesOfUpload ==
    [][\A c \in Clients :
         (extract_data_finally(c) /\ resp'.status = 200) =>
            resp'.body = [i \in 1..Len(local[c].file.content) |->
                            Markdown[local[c].file.content[i]]]]_vars

\* C10: the temporary file a request hands to the conversion engine is there
\* and holds the bytes of that request's upload, whatever other extract
\* requests do meanwhile.
C10_OwnBytesConverted ==
    [][\A c \in Clients :
         extract_data_zerox(c) =>
            /\ fs[local[c].temp_file_path].exists
            /\ fs[local[c].temp_file_path].bytes = local[c].file.content]_vars

====
